---------------------------- MODULE Spec2Model ----------------------------
(***************************************************************************)
(* radarqc: codec for CODAR Cross-Spectrum (CS) files.                     *)
(*                                                                         *)
(* The module models the facade (csfile.load/loads/dump/dumps), the        *)
(* reader (radarqc/reader.py), the writer (radarqc/writer.py), the header  *)
(* (radarqc/header.py), the spectrum (radarqc/spectrum.py) and the block   *)
(* registry (radarqc/registry.py).  radarqc/serialization.py               *)
(* (BinaryReader / BinaryWriter) is not among the source files; it is      *)
(* modelled from section 4.1 of the specification.                         *)
(*                                                                         *)
(* Conventions.                                                            *)
(*  - A byte is an integer 0..255; a stream, a bytes object and a str are  *)
(*    sequences of bytes / code points (Latin-1: one byte per character).  *)
(*  - A float32 or float64 is kept as its big-endian bit pattern, the      *)
(*    sequence of its 4 or 8 bytes.                                         *)
(*  - None is <<>> and a non-None attribute value v is <<v>>.              *)
(*  - A call returns a record whose field err is "none" or the name of     *)
(*    the exception that left the call.                                    *)
(***************************************************************************)
EXTENDS Integers, Sequences, FiniteSets, TLC

VARIABLES
    readers,   \* _CSBlockReader.__registry._registry : tag -> class
    writers,   \* _CSBlockWriter.__registry._registry : tag -> class
    call,      \* the last call made to the package and its arguments
    result,    \* what that call returned or raised
    exchange   \* examples/client.py and examples/server.py on one connection

vars == <<readers, writers, call, result, exchange>>

(***************************************************************************)
(* Python values                                                           *)
(***************************************************************************)
None == <<>>
Some(v) == <<v>>
IsNone(o) == o = <<>>
Val(o) == o[1]

\* The key None of a registry (tag=None of the raw block classes); every
\* other key is a str, a sequence of code points >= 0.
NoneTag == <<-1>>

RECURSIVE RStripNul(_)
\* bytes.rstrip(b"\x00"): the trailing NUL bytes removed.
RStripNul(s) ==
    IF s = <<>> THEN <<>>
    ELSE IF s[Len(s)] = 0 THEN RStripNul(SubSeq(s, 1, Len(s) - 1))
    ELSE s

RECURSIVE Concat(_)
\* b"".join(seq)
Concat(ss) == IF ss = <<>> THEN <<>> ELSE Head(ss) \o Concat(Tail(ss))

(***************************************************************************)
(* Binary scalar I/O (specification section 4.1), big-endian.              *)
(* A reader is [buf, pos]; a read returns [err, pos, val].                 *)
(***************************************************************************)
Byte == 0..255

NewReader(s) == [buf |-> s, pos |-> 0]

\* Read exactly n bytes; Truncated when fewer remain.  The reader asks the
\* stream for n bytes and no more.
ReadBytes(r, n) ==
    IF n < 0 \/ r.pos + n > Len(r.buf)
    THEN [err |-> "Truncated", pos |-> r.pos, val |-> <<>>]
    ELSE [err |-> "none", pos |-> r.pos + n,
          val |-> SubSeq(r.buf, r.pos + 1, r.pos + n)]

At(r, p) == [buf |-> r.buf, pos |-> p]

RECURSIVE BEValue(_)
\* The unsigned big-endian value of a byte sequence.
BEValue(bs) ==
    IF bs = <<>> THEN 0 ELSE BEValue(SubSeq(bs, 1, Len(bs) - 1)) * 256 + bs[Len(bs)]

\* The two's-complement big-endian value of a byte sequence.
BESigned(bs) ==
    IF bs[1] >= 128 THEN BEValue(<<bs[1] - 256>> \o Tail(bs)) ELSE BEValue(bs)

ReadUnsigned(r, width) ==
    LET b == ReadBytes(r, width)
    IN  IF b.err # "none" THEN b ELSE [b EXCEPT !.val = BEValue(b.val)]

ReadSignedInt(r, width) ==
    LET b == ReadBytes(r, width)
    IN  IF b.err # "none" THEN b ELSE [b EXCEPT !.val = BESigned(b.val)]

ReadUint8(r) == ReadUnsigned(r, 1)
ReadUint16(r) == ReadUnsigned(r, 2)
ReadUint32(r) == ReadUnsigned(r, 4)
ReadInt16(r) == ReadSignedInt(r, 2)
ReadInt32(r) == ReadSignedInt(r, 4)
\* float32 / float64: the bit pattern is the value.
ReadFloat(r) == ReadBytes(r, 4)
ReadDouble(r) == ReadBytes(r, 8)

\* A string of exactly n bytes, trailing NUL bytes removed, Latin-1.
ReadString(r, n) ==
    LET b == ReadBytes(r, n)
    IN  IF b.err # "none" THEN b ELSE [b EXCEPT !.val = RStripNul(b.val)]

RECURSIVE ReadMany(_, _, _)
\* read_<type>(n): n values of `width` bytes each, as a tuple of raw fields.
ReadMany(r, width, n) ==
    IF n <= 0 THEN [err |-> "none", pos |-> r.pos, val |-> <<>>]
    ELSE LET b == ReadBytes(r, width)
         IN  IF b.err # "none" THEN b
             ELSE LET rest == ReadMany(At(r, b.pos), width, n - 1)
                  IN  IF rest.err # "none" THEN rest
                      ELSE [rest EXCEPT !.val = <<b.val>> \o rest.val]

RECURSIVE BEBytes(_, _)
\* The `width` big-endian bytes of an unsigned value.
BEBytes(v, width) ==
    IF width = 0 THEN <<>> ELSE BEBytes(v \div 256, width - 1) \o <<v % 256>>

\* The `width` big-endian two's-complement bytes of a signed value.
BESignedBytes(v, width) ==
    IF v >= 0 THEN BEBytes(v, width)
    ELSE LET top == BEBytes(-(v + 1), width)
         IN  [i \in 1..width |-> 255 - top[i]]

\* A writer is [kind, out]; a write appends exactly the declared width.
NewWriter == [kind |-> "BinaryWriter", out |-> <<>>]
Emit(w, bs) == [w EXCEPT !.out = w.out \o bs]
WriteUint8(w, v) == Emit(w, BEBytes(v, 1))
WriteUint16(w, v) == Emit(w, BEBytes(v, 2))
WriteUint32(w, v) == Emit(w, BEBytes(v, 4))
WriteInt16(w, v) == Emit(w, BESignedBytes(v, 2))
WriteInt32(w, v) == Emit(w, BESignedBytes(v, 4))
WriteFloat(w, bits) == Emit(w, bits)
WriteDouble(w, bits) == Emit(w, bits)
\* Strings and bytes are written raw: the caller controls padding and length.
WriteString(w, s) == Emit(w, s)
WriteBytes(w, bs) == Emit(w, bs)

(***************************************************************************)
(* radarqc/header.py                                                       *)
(***************************************************************************)
\* The attributes CSFileHeader.__init__ sets to None, in order.
HeaderFields ==
    <<"version", "timestamp", "cskind", "site_code", "cover_minutes",
      "deleted_source", "override_source", "start_freq_mhz", "rep_freq_mhz",
      "bandwidth_khz", "sweep_up", "num_doppler_cells", "num_range_cells",
      "first_range_cell", "range_cell_dist_km", "output_interval",
      "create_type_code", "creator_version", "num_active_channels",
      "num_spectra_channels", "active_channels">>

\* The object CSFileHeader.__init__(self) leaves: every attribute None and
\* blocks an empty OrderedDict (a sequence of <<key, value>> pairs).
EmptyHeader ==
    [kind |-> "CSFileHeader", version |-> None, timestamp |-> None,
     cskind |-> None, site_code |-> None, cover_minutes |-> None,
     deleted_source |-> None, override_source |-> None,
     start_freq_mhz |-> None, rep_freq_mhz |-> None, bandwidth_khz |-> None,
     sweep_up |-> None, num_doppler_cells |-> None, num_range_cells |-> None,
     first_range_cell |-> None, range_cell_dist_km |-> None,
     output_interval |-> None, create_type_code |-> None,
     creator_version |-> None, num_active_channels |-> None,
     num_spectra_channels |-> None, active_channels |-> None,
     blocks |-> <<>>]

\* CSFileHeader(**kwargs).  __init__ takes self alone, so a call that passes
\* any keyword argument raises TypeError before the object exists.
CSFileHeaderInit(kwargs) ==
    IF kwargs # {}
    THEN [err |-> "TypeError", obj |-> EmptyHeader]
    ELSE [err |-> "none", obj |-> EmptyHeader]

\* OrderedDict: d[key] = value.  A new key is appended; an existing key
\* keeps its position and takes the new value.
DictKeys(d) == [i \in 1..Len(d) |-> d[i][1]]
DictValues(d) == [i \in 1..Len(d) |-> d[i][2]]
DictHas(d, key) == \E i \in 1..Len(d) : d[i][1] = key
DictSet(d, key, value) ==
    IF DictHas(d, key)
    THEN [i \in 1..Len(d) |-> IF d[i][1] = key THEN <<key, value>> ELSE d[i]]
    ELSE Append(d, <<key, value>>)

(***************************************************************************)
(* radarqc/registry.py                                                     *)
(***************************************************************************)
\* The methods class ClassRegistry defines.
ClassRegistryMethods == {"register", "create"}

\* A register that stores the subclass whether or not the tag is taken:
\* the registry C6 rules out.
RegisterOverwriting(reg, tag, subclass) ==
    [err |-> "none",
     reg |-> [t \in DOMAIN reg \cup {tag} |->
                 IF t = tag THEN subclass ELSE reg[t]]]

\* ClassRegistry.register(tag, parent, subclass): the first registration of
\* a tag is kept, a second one raises ClassRegistryError.
RegistryRegister(reg, tag, subclass) ==
    IF tag \in DOMAIN reg
    THEN [err |-> "ClassRegistryError", reg |-> reg]
    ELSE [err |-> "none",
          reg |-> [t \in DOMAIN reg \cup {tag} |->
                      IF t = tag THEN subclass ELSE reg[t]]]

\* ClassRegistry.create(tag, default): an instance of the class registered
\* for tag, of default when there is none.
RegistryCreate(reg, tag, default) ==
    [err |-> "none", cls |-> IF tag \in DOMAIN reg THEN reg[tag] ELSE default]

\* registry.<method>(tag, default) on a ClassRegistry: an attribute the
\* class does not define raises AttributeError.
RegistryCall(reg, method, tag, default) ==
    IF method \notin ClassRegistryMethods
    THEN [err |-> "AttributeError", cls |-> "NoClass"]
    ELSE RegistryCreate(reg, tag, default)

(***************************************************************************)
(* Block tags (str: sequences of code points)                              *)
(***************************************************************************)
TIME == <<84, 73, 77, 69>>
ZONE == <<90, 79, 78, 69>>
CITY == <<67, 73, 84, 89>>
LOCA == <<76, 79, 67, 65>>
SITD == <<83, 73, 84, 68>>
RCVI == <<82, 67, 86, 73>>
TOOL == <<84, 79, 79, 76>>
GLRM == <<71, 76, 82, 77>>
SUPI == <<83, 85, 80, 73>>
SUPM == <<83, 85, 80, 77>>
SUPP == <<83, 85, 80, 80>>
ANTG == <<65, 78, 84, 71>>
FWIN == <<70, 87, 73, 78>>
IQAP == <<73, 81, 65, 80>>
FILL == <<70, 73, 76, 76>>
FOLS == <<70, 79, 76, 83>>
WOLS == <<87, 79, 76, 83>>
BRGR == <<66, 82, 71, 82>>
END6 == <<69, 78, 68, 54>>
\* Tags no class of the package is registered for.
XXXX == <<88, 88, 88, 88>>
USR1 == <<85, 83, 82, 49>>

\* reader.py without its last class, _CSBlockReaderEND6.
ReaderClassesWithoutEND6 ==
    << <<NoneTag, "_RawBlockReader">>,   <<TIME, "_CSBlockReaderTIME">>,
       <<ZONE, "_CSBlockReaderZONE">>,   <<CITY, "_CSBlockReaderCITY">>,
       <<LOCA, "_CSBlockReaderLOCA">>,   <<SITD, "_CSBlockReaderSITD">>,
       <<RCVI, "_CSBlockReaderRCVI">>,   <<TOOL, "_CSBlockReaderTOOL">>,
       <<GLRM, "_CSBlockReaderGLRM">>,   <<SUPI, "_CSBlockReaderSUPI">>,
       <<SUPM, "_CSBlockReaderSUPM">>,   <<SUPP, "_CSBlockReaderSUPP">>,
       <<ANTG, "_CSBlockReaderANTG">>,   <<FWIN, "_CSBlockReaderFWIN">>,
       <<IQAP, "_CSBlockReaderIQAP">>,   <<FILL, "_CSBlockReaderFILL">>,
       <<FOLS, "_CSBlockReaderFOLS">>,   <<WOLS, "_CSBlockReaderWOLS">>,
       <<BRGR, "_CSBlockReaderBRGR">> >>

\* The class definitions of reader.py in module order: <<tag, class>>.
ReaderClasses ==
    << <<NoneTag, "_RawBlockReader">>,   <<TIME, "_CSBlockReaderTIME">>,
       <<ZONE, "_CSBlockReaderZONE">>,   <<CITY, "_CSBlockReaderCITY">>,
       <<LOCA, "_CSBlockReaderLOCA">>,   <<SITD, "_CSBlockReaderSITD">>,
       <<RCVI, "_CSBlockReaderRCVI">>,   <<TOOL, "_CSBlockReaderTOOL">>,
       <<GLRM, "_CSBlockReaderGLRM">>,   <<SUPI, "_CSBlockReaderSUPI">>,
       <<SUPM, "_CSBlockReaderSUPM">>,   <<SUPP, "_CSBlockReaderSUPP">>,
       <<ANTG, "_CSBlockReaderANTG">>,   <<FWIN, "_CSBlockReaderFWIN">>,
       <<IQAP, "_CSBlockReaderIQAP">>,   <<FILL, "_CSBlockReaderFILL">>,
       <<FOLS, "_CSBlockReaderFOLS">>,   <<WOLS, "_CSBlockReaderWOLS">>,
       <<BRGR, "_CSBlockReaderBRGR">>,   <<END6, "_CSBlockReaderEND6">> >>

\* The class definitions of writer.py in module order: <<tag, class>>.
WriterClasses ==
    << <<NoneTag, "_RawBlockWriter">>,   <<TIME, "_CSBlockWriterTIME">>,
       <<ZONE, "_CSBlockWriterZONE">>,   <<CITY, "_CSBlockWriterCITY">>,
       <<LOCA, "_CSBlockWriterLOCA">>,   <<SITD, "_CSBlockWriterSITD">>,
       <<RCVI, "_CSBlockWriterRCVI">>,   <<TOOL, "_CSBlockWriterTOOL">>,
       <<GLRM, "_CSBlockWriterGLRM">>,   <<SUPI, "_CSBlockWriterSUPI">>,
       <<SUPM, "_CSBlockWriterSUPM">>,   <<SUPP, "_CSBlockWriterSUPP">>,
       <<ANTG, "_CSBlockWriterANTG">>,   <<FWIN, "_CSBlockWriterFWIN">>,
       <<IQAP, "_CSBlockWriterIQAP">>,   <<FILL, "_CSBlockWriterFILL">>,
       <<FOLS, "_CSBlockWriterFOLS">>,   <<WOLS, "_CSBlockWriterWOLS">>,
       <<BRGR, "_CSBlockWriterBRGR">>,   <<END6, "_CSBlockWriterEND6">> >>

\* The empty registry ClassRegistry.__init__ makes.
EmptyRegistry == [t \in {} |-> "NoClass"]

RECURSIVE RegisterAll(_, _)
\* Importing a module runs __init_subclass__ once per class definition, in
\* order; each registers its class under its tag.
RegisterAll(reg, classes) ==
    IF classes = <<>> THEN reg
    ELSE RegisterAll(RegistryRegister(reg, Head(classes)[1], Head(classes)[2]).reg,
                     Tail(classes))

\* _CSBlockReader.make(tag): self.__registry.make(tag, _RawBlockReader).
BlockReaderMake(reg, tag) == RegistryCall(reg, "make", tag, "_RawBlockReader")

\* _CSBlockWriter.make(tag): self.__registry.make(tag, _RawBlockWriter).
BlockWriterMake(reg, tag) == RegistryCall(reg, "make", tag, "_RawBlockWriter")

(***************************************************************************)
(* radarqc/reader.py: block readers                                        *)
(***************************************************************************)
RECURSIVE ReadFields(_, _)
\* Consecutive reads of the given byte widths: the tuple of raw fields, or
\* the error of the first read that fails.
ReadFields(r, widths) ==
    IF widths = <<>> THEN [err |-> "none", pos |-> r.pos, val |-> <<>>]
    ELSE LET b == ReadBytes(r, Head(widths))
         IN  IF b.err # "none" THEN b
             ELSE LET rest == ReadFields(At(r, b.pos), Tail(widths))
                  IN  IF rest.err # "none" THEN rest
                      ELSE [rest EXCEPT !.val = <<b.val>> \o rest.val]

\* _RawBlockReader, _CSBlockReaderSUPI/SUPM/SUPP/ANTG/FWIN/IQAP/FILL/WOLS/
\* BRGR: reader.read_bytes(block_size).
ReadBlockBytes(r, block_size) == ReadBytes(r, block_size)

\* _CSBlockReaderZONE/CITY/SITD/TOOL/END6: reader.read_string(block_size).
ReadBlockString(r, block_size) == ReadString(r, block_size)

\* _CSBlockReaderTIME._read_block: 31 bytes whatever block_size says.
ReadBlockTIME(r, block_size) ==
    LET f == ReadFields(r, <<1, 2, 4, 24>>)
    IN  IF f.err # "none" THEN f
        ELSE [f EXCEPT !.val =
                 [time_mark |-> BEValue(f.val[1]),
                  year |-> BEValue(f.val[2]),
                  month |-> f.val[3][1], day |-> f.val[3][2],
                  hour |-> f.val[3][3], minute |-> f.val[3][4],
                  seconds |-> SubSeq(f.val[4], 1, 8),
                  coverage_seconds |-> SubSeq(f.val[4], 9, 16),
                  hours_from_utc |-> SubSeq(f.val[4], 17, 24)]]

\* _CSBlockReaderLOCA._read_block: 24 bytes whatever block_size says.
ReadBlockLOCA(r, block_size) ==
    LET f == ReadFields(r, <<24>>)
    IN  IF f.err # "none" THEN f
        ELSE [f EXCEPT !.val =
                 [latitude |-> SubSeq(f.val[1], 1, 8),
                  longitude |-> SubSeq(f.val[1], 9, 16),
                  altitude_meters |-> SubSeq(f.val[1], 17, 24)]]

\* _CSBlockReaderRCVI._read_block: 48 bytes whatever block_size says; the
\* firmware string loses its trailing NUL padding.
ReadBlockRCVI(r, block_size) ==
    LET f == ReadFields(r, <<8, 8, 32>>)
    IN  IF f.err # "none" THEN f
        ELSE [f EXCEPT !.val =
                 [receiver_model |-> BEValue(SubSeq(f.val[1], 1, 4)),
                  antenna_model |-> BEValue(SubSeq(f.val[1], 5, 8)),
                  reference_gain_db |-> f.val[2],
                  firmware |-> RStripNul(f.val[3])]]

\* _CSBlockReaderGLRM._read_block: 39 bytes whatever block_size says;
\* remove_dc = bool(uint8).
ReadBlockGLRM(r, block_size) ==
    LET f == ReadFields(r, <<2, 12, 24, 1>>)
    IN  IF f.err # "none" THEN f
        ELSE [f EXCEPT !.val =
                 [method |-> f.val[1][1], version |-> f.val[1][2],
                  num_points_removed |-> BEValue(SubSeq(f.val[2], 1, 4)),
                  num_times_removed |-> BEValue(SubSeq(f.val[2], 5, 8)),
                  num_segments_removed |-> BEValue(SubSeq(f.val[2], 9, 12)),
                  point_power_threshold |-> SubSeq(f.val[3], 1, 8),
                  range_power_threshold |-> SubSeq(f.val[3], 9, 16),
                  range_bin_threshold |-> SubSeq(f.val[3], 17, 24),
                  remove_dc |-> (f.val[4][1] # 0)]]

\* _CSBlockReaderFOLS._read_block: header.num_range_cells rows of four int32
\* whatever block_size says; range(None) raises TypeError.
ReadBlockFOLS(r, block_size, header) ==
    IF IsNone(header.num_range_cells)
    THEN [err |-> "TypeError", pos |-> r.pos, val |-> <<>>]
    ELSE LET f == ReadMany(r, 16, Val(header.num_range_cells))
         IN  IF f.err # "none" THEN f
             ELSE [f EXCEPT !.val =
                      [i \in 1..Len(f.val) |->
                          [j \in 1..4 |->
                              BESigned(SubSeq(f.val[i], 4 * j - 3, 4 * j))]]]

StringReaders ==
    {"_CSBlockReaderZONE", "_CSBlockReaderCITY", "_CSBlockReaderSITD",
     "_CSBlockReaderTOOL", "_CSBlockReaderEND6"}

\* _CSBlockReader.read_block: dispatch on the parser's class.  A class a
\* caller registered (UserReaderA, UserReaderB) reads its payload as bytes.
ReadBlock(cls, r, block_size, header) ==
    CASE cls = "_CSBlockReaderTIME" -> ReadBlockTIME(r, block_size)
      [] cls = "_CSBlockReaderLOCA" -> ReadBlockLOCA(r, block_size)
      [] cls = "_CSBlockReaderRCVI" -> ReadBlockRCVI(r, block_size)
      [] cls = "_CSBlockReaderGLRM" -> ReadBlockGLRM(r, block_size)
      [] cls = "_CSBlockReaderFOLS" -> ReadBlockFOLS(r, block_size, header)
      [] cls \in StringReaders -> ReadBlockString(r, block_size)
      [] OTHER -> ReadBlockBytes(r, block_size)

(***************************************************************************)
(* radarqc/reader.py: CSFileReader                                         *)
(***************************************************************************)
\* The date of 1904-01-01 + seconds at midnight: the time of day is dropped.
ParseTimestampDate(seconds) == [days |-> seconds \div 86400, secs |-> 0]

\* _parse_timestamp: datetime(1904, 1, 1) + timedelta(seconds=seconds); a
\* datetime is kept as the (days, seconds) of its distance from 1904-01-01.
ParseTimestamp(seconds) ==
    [days |-> seconds \div 86400, secs |-> seconds % 86400]

\* A step of the header reader returns [err, pos, h].
HeaderStep(e, p, h) == [err |-> e, pos |-> p, h |-> h]

\* header.timestamp = self._parse_timestamp(reader.read_uint32()); the
\* int32 v1_extent is read and dropped.
ReadHeaderBytesV1(r, h) ==
    LET f == ReadFields(r, <<4, 4>>)
    IN  IF f.err # "none" THEN HeaderStep(f.err, f.pos, h)
        ELSE HeaderStep("none", f.pos,
                 [h EXCEPT !.timestamp = Some(ParseTimestamp(BEValue(f.val[1])))])

ReadHeaderBytesV2(r, h) ==
    LET f == ReadFields(r, <<2, 4>>)
    IN  IF f.err # "none" THEN HeaderStep(f.err, f.pos, h)
        ELSE HeaderStep("none", f.pos,
                 [h EXCEPT !.cskind = Some(BESigned(f.val[1]))])

ReadHeaderBytesV3(r, h) ==
    LET f == ReadFields(r, <<4, 4>>)
    IN  IF f.err # "none" THEN HeaderStep(f.err, f.pos, h)
        ELSE HeaderStep("none", f.pos,
                 [h EXCEPT !.site_code = Some(RStripNul(f.val[1]))])

\* The assignments of _read_header_bytes_v4 from its twelve fields.
SetFieldsV4(h, v) ==
    [h EXCEPT !.cover_minutes = Some(BESigned(v[1])),
              !.deleted_source = Some(BESigned(v[2]) # 0),
              !.override_source = Some(BESigned(v[3]) # 0),
              !.start_freq_mhz = Some(v[4]),
              !.rep_freq_mhz = Some(v[5]),
              !.bandwidth_khz = Some(v[6]),
              !.sweep_up = Some(BESigned(v[7]) # 0),
              !.num_doppler_cells = Some(BESigned(v[8])),
              !.num_range_cells = Some(BESigned(v[9])),
              !.first_range_cell = Some(BESigned(v[10])),
              !.range_cell_dist_km = Some(v[11])]

ReadHeaderBytesV4(r, h) ==
    LET f == ReadFields(r, <<4, 4, 4, 4, 4, 4, 4, 4, 4, 4, 4, 4>>)
    IN  IF f.err # "none" THEN HeaderStep(f.err, f.pos, h)
        ELSE HeaderStep("none", f.pos, SetFieldsV4(h, f.val))

\* The assignments of _read_header_bytes_v5 from its seven fields.
SetFieldsV5(h, v) ==
    [h EXCEPT !.output_interval = Some(BESigned(v[1])),
              !.create_type_code = Some(RStripNul(v[2])),
              !.creator_version = Some(RStripNul(v[3])),
              !.num_active_channels = Some(BESigned(v[4])),
              !.num_spectra_channels = Some(BESigned(v[5])),
              !.active_channels = Some(BEValue(v[6]))]

ReadHeaderBytesV5(r, h) ==
    LET f == ReadFields(r, <<4, 4, 4, 4, 4, 4, 4>>)
    IN  IF f.err # "none" THEN HeaderStep(f.err, f.pos, h)
        ELSE HeaderStep("none", f.pos, SetFieldsV5(h, f.val))

\* One pass of the loop body of _read_header_bytes_v6, statement by
\* statement; each takes the outcomes of the statements before it.
\* A pass returns [err, pos, h, size].
BlockStep(e, p, h, size) == [err |-> e, pos |-> p, h |-> h, size |-> size]

\* header.blocks[block_key] = block
StoreBlock(key, size, block, h) ==
    IF block.err # "none" THEN BlockStep(block.err, block.pos, h, size)
    ELSE BlockStep("none", block.pos,
                   [h EXCEPT !.blocks = DictSet(@, key, block.val)], size)

\* block = parser.read_block(reader, block_size, header)
ParseBlock(key, size, parser, r, h) ==
    IF parser.err # "none" THEN BlockStep(parser.err, size.pos, h, size.val)
    ELSE StoreBlock(key, size.val,
                    ReadBlock(parser.cls, At(r, size.pos), size.val, h), h)

\* parser = self._get_block_parser(block_key)
LookupBlock(key, size, r, h, reg) ==
    IF size.err # "none" THEN BlockStep(size.err, size.pos, h, 0)
    ELSE ParseBlock(key, size, BlockReaderMake(reg, key), r, h)

\* block_size = reader.read_uint32()
SizeBlock(key, r, h, reg) ==
    IF key.err # "none" THEN BlockStep(key.err, key.pos, h, 0)
    ELSE LookupBlock(key.val, ReadUint32(At(r, key.pos)), r, h, reg)

\* block_key = reader.read_string(4)
ReadOneBlock(r, h, reg) == SizeBlock(ReadString(r, 4), r, h, reg)

RECURSIVE BlockLoop(_, _, _, _)
RECURSIVE AfterBlock(_, _, _, _)
\* while section_size > 0: one pass, then section_size -= 8 + block_size.
BlockLoop(r, h, reg, section_size) ==
    IF ~(section_size > 0) THEN HeaderStep("none", r.pos, h)
    ELSE AfterBlock(ReadOneBlock(r, h, reg), r.buf, reg, section_size)

AfterBlock(pass, buf, reg, section_size) ==
    IF pass.err # "none" THEN HeaderStep(pass.err, pass.pos, pass.h)
    ELSE BlockLoop([buf |-> buf, pos |-> pass.pos], pass.h, reg,
                   section_size - 8 - pass.size)

\* section_size = reader.read_uint32(), then the loop.
SectionLoop(ss, r, h, reg) ==
    IF ss.err # "none" THEN HeaderStep(ss.err, ss.pos, h)
    ELSE BlockLoop(At(r, ss.pos), h, reg, ss.val)

ReadHeaderBytesV6(r, h, reg) == SectionLoop(ReadUint32(r), r, h, reg)

\* self._read_header_bytes_v<k>(reader, header)
ReadLayer(k, r, h, reg) ==
    CASE k = 1 -> ReadHeaderBytesV1(r, h)
      [] k = 2 -> ReadHeaderBytesV2(r, h)
      [] k = 3 -> ReadHeaderBytesV3(r, h)
      [] k = 4 -> ReadHeaderBytesV4(r, h)
      [] k = 5 -> ReadHeaderBytesV5(r, h)
      [] k = 6 -> ReadHeaderBytesV6(r, h, reg)

RECURSIVE ReadLayers(_, _, _, _, _)
\* The body of _read_header after the version check: layer k is read after
\* layer k - 1, and the header is returned after layer `version`.
ReadLayers(st, buf, k, version, reg) ==
    IF st.err # "none" \/ k > version THEN st
    ELSE ReadLayers(ReadLayer(k, [buf |-> buf, pos |-> st.pos], st.h, reg),
                    buf, k + 1, version, reg)

\* _read_header after header = CSFileHeader(version=version).
CheckVersion(made, r, version, reg) ==
    IF made.err # "none" THEN HeaderStep(made.err, r.pos, made.obj)
    ELSE IF version < 1 \/ version > 6 THEN HeaderStep("ValueError", r.pos, made.obj)
    ELSE ReadLayers(HeaderStep("none", r.pos, made.obj), r.buf, 1, version, reg)

\* _read_header(reader, version).
ReadHeader(r, version, reg) ==
    CheckVersion(CSFileHeaderInit({"version"}), r, version, reg)

(***************************************************************************)
(* radarqc/processing.py and radarqc/spectrum.py                           *)
(***************************************************************************)
\* A real matrix is a sequence of rows of float32 bit patterns; a complex
\* matrix is a sequence of rows of <<real, imag>> pairs.
RealPart(m) == [i \in 1..Len(m) |-> [j \in 1..Len(m[i]) |-> m[i][j][1]]]
ImagPart(m) == [i \in 1..Len(m) |-> [j \in 1..Len(m[i]) |-> m[i][j][2]]]
Recombine(re, im) ==
    [i \in 1..Len(re) |-> [j \in 1..Len(re[i]) |-> <<re[i][j], im[i][j]>>]]

\* |x| of a float32: the sign bit cleared.
FloatAbs(bits) == <<bits[1] % 128, bits[2], bits[3], bits[4]>>

\* SignalProcessor._process of Identity() (the signal itself) and of Abs().
Process(p, signal) ==
    IF p = "Abs"
    THEN [i \in 1..Len(signal) |->
             [j \in 1..Len(signal[i]) |-> FloatAbs(signal[i][j])]]
    ELSE signal

\* SignalProcessor.__call__(self, signal): one positional argument; a call
\* with any other number of arguments raises TypeError.
CallProcessor(p, args) ==
    IF Len(args) # 1 THEN [err |-> "TypeError", val |-> <<>>]
    ELSE [err |-> "none", val |-> Process(p, args[1])]

\* A float32 is NaN when its exponent bits are all ones and its fraction
\* is not zero.
IsNaN(bits) ==
    /\ (bits[1] % 128) * 2 + bits[2] \div 128 = 255
    /\ <<bits[2] % 128, bits[3], bits[4]>> # <<0, 0, 0>>

\* x.clip(min=0) of one float32: NaN stays, a value below the bound becomes
\* the bound 0.0, any other value stays.
Clip(bits) ==
    IF IsNaN(bits) THEN bits
    ELSE IF bits[1] >= 128 THEN <<0, 0, 0, 0>>
    ELSE bits

\* A processor object: its class and, for a CompositeProcessor, the tuple
\* self._processors.
Processor(cls) == [cls |-> cls, processors |-> <<>>]
CompositeProcessor(processors) ==
    [cls |-> "CompositeProcessor", processors |-> processors]

\* _process of the classes without a pipeline: Rectifier, Abs, Identity.
ProcessOf(cls, signal) ==
    IF cls = "Rectifier"
    THEN [i \in 1..Len(signal) |->
             [j \in 1..Len(signal[i]) |-> Clip(signal[i][j])]]
    ELSE Process(cls, signal)

RECURSIVE SignalProcessorCall(_, _)
RECURSIVE CompositeProcess(_, _, _)
RECURSIVE CompositeProcessReversed(_, _, _)

\* The pipeline run from its last processor to its first.
CompositeProcessReversed(processors, i, signal) ==
    IF i > Len(processors) THEN signal
    ELSE CompositeProcessReversed(
             processors, i + 1,
             SignalProcessorCall(processors[Len(processors) + 1 - i], signal))

\* CompositeProcessor._process from the i-th processor on:
\*   for process in self._processors: signal = process(signal)
CompositeProcess(processors, i, signal) ==
    IF i > Len(processors) THEN signal
    ELSE CompositeProcess(processors, i + 1,
                          SignalProcessorCall(processors[i], signal))

\* SignalProcessor.__call__(self, signal) == self._process(signal).
SignalProcessorCall(proc, signal) ==
    IF proc.cls = "CompositeProcessor"
    THEN CompositeProcess(proc.processors, 1, signal)
    ELSE ProcessOf(proc.cls, signal)

NoSpectrum ==
    [antenna1 |-> <<>>, antenna2 |-> <<>>, antenna3 |-> <<>>,
     cross12 |-> <<>>, cross13 |-> <<>>, cross23 |-> <<>>, quality |-> <<>>]

\* Spectrum._preprocess_complex_signal(raw, preprocess).
PreprocessComplexSignal(raw, p) ==
    LET re == CallProcessor(p, <<RealPart(raw)>>)
        im == CallProcessor(p, <<ImagPart(raw)>>)
    IN  IF re.err # "none" THEN re
        ELSE IF im.err # "none" THEN im
        ELSE [err |-> "none", val |-> Recombine(re.val, im.val)]

\* Spectrum.__init__: the real channels are passed as preprocess(x, preprocess).
SpectrumInit(a1, a2, a3, c12, c13, c23, q, p) ==
    LET r1 == CallProcessor(p, <<a1, p>>)
        r2 == CallProcessor(p, <<a2, p>>)
        r3 == CallProcessor(p, <<a3, p>>)
        x12 == PreprocessComplexSignal(c12, p)
        x13 == PreprocessComplexSignal(c13, p)
        x23 == PreprocessComplexSignal(c23, p)
        rq == CallProcessor(p, <<q, p>>)
        errs == <<r1.err, r2.err, r3.err, x12.err, x13.err, x23.err, rq.err>>
    IN  IF \E i \in 1..7 : errs[i] # "none"
        THEN [err |-> errs[CHOOSE i \in 1..7 :
                               errs[i] # "none" /\ \A j \in 1..(i - 1) : errs[j] = "none"],
              obj |-> NoSpectrum]
        ELSE [err |-> "none",
              obj |-> [antenna1 |-> r1.val, antenna2 |-> r2.val,
                       antenna3 |-> r3.val, cross12 |-> x12.val,
                       cross13 |-> x13.val, cross23 |-> x23.val,
                       quality |-> rq.val]]

(***************************************************************************)
(* radarqc/reader.py: the spectrum                                         *)
(***************************************************************************)
\* _read_real_row: num_doppler_cells float32.
ReadRealRow(r, h) == ReadMany(r, 4, Val(h.num_doppler_cells))

\* numpy.array(floats, float32).view(complex64): consecutive pairs.
ViewComplex(f) ==
    IF f.err # "none" THEN f
    ELSE [f EXCEPT !.val =
             [j \in 1..(Len(f.val) \div 2) |-> <<f.val[2 * j - 1], f.val[2 * j]>>]]

\* _read_complex_row: 2 * num_doppler_cells float32 viewed as complex64.
ReadComplexRow(r, h) == ViewComplex(ReadMany(r, 4, Val(h.num_doppler_cells) * 2))

\* The lists a1, a2, a3, c12, c13, c23, q are lists[1..7]; the loop body
\* appends to them in this order, to q only if header.cskind >= 2.
RowKinds(h) ==
    IF Val(h.cskind) >= 2
    THEN <<"real", "real", "real", "complex", "complex", "complex", "real">>
    ELSE <<"real", "real", "real", "complex", "complex", "complex">>

ReadRow(kind, r, h) ==
    IF kind = "real" THEN ReadRealRow(r, h) ELSE ReadComplexRow(r, h)

\* The state of the loop of _read_spectrum: [err, pos, lists].
RECURSIVE ReadRows(_, _, _, _, _)
RECURSIVE AfterRow(_, _, _, _, _, _)
\* The appends k..Len(kinds) of one pass of the loop body.
ReadRows(st, buf, h, kinds, k) ==
    IF st.err # "none" \/ k > Len(kinds) THEN st
    ELSE AfterRow(ReadRow(kinds[k], [buf |-> buf, pos |-> st.pos], h),
                  st, buf, h, kinds, k)

AfterRow(row, st, buf, h, kinds, k) ==
    IF row.err # "none" THEN [st EXCEPT !.err = row.err, !.pos = row.pos]
    ELSE ReadRows([st EXCEPT !.pos = row.pos,
                             !.lists[k] = Append(@, row.val)],
                  buf, h, kinds, k + 1)

RECURSIVE ReadCells(_, _, _, _)
\* for _ in range(header.num_range_cells): one pass per cell.
ReadCells(st, buf, h, n) ==
    IF st.err # "none" \/ n <= 0 THEN st
    ELSE ReadCells(ReadRows(st, buf, h, RowKinds(h), 1), buf, h, n - 1)

\* numpy.stack(rows): a list of no rows raises ValueError.
StackAll(lists) == IF \E k \in 1..7 : lists[k] = <<>> THEN "ValueError" ELSE "none"

\* return Spectrum(np.stack(a1), ..., np.stack(q), preprocess)
MakeSpectrum(made, pos) == [err |-> made.err, pos |-> pos, obj |-> made.obj]

StackRows(cells, p) ==
    IF cells.err # "none"
    THEN [err |-> cells.err, pos |-> cells.pos, obj |-> NoSpectrum]
    ELSE IF StackAll(cells.lists) # "none"
    THEN [err |-> StackAll(cells.lists), pos |-> cells.pos, obj |-> NoSpectrum]
    ELSE MakeSpectrum(SpectrumInit(cells.lists[1], cells.lists[2],
                                   cells.lists[3], cells.lists[4],
                                   cells.lists[5], cells.lists[6],
                                   cells.lists[7], p),
                      cells.pos)

\* _read_spectrum.  range(None) raises TypeError.
ReadSpectrum(r, h, p) ==
    IF IsNone(h.num_range_cells)
    THEN [err |-> "TypeError", pos |-> r.pos, obj |-> NoSpectrum]
    ELSE StackRows(ReadCells([err |-> "none", pos |-> r.pos,
                              lists |-> [k \in 1..7 |-> <<>>]],
                             r.buf, h, Val(h.num_range_cells)),
                   p)

\* What a load returns: [err, header, spectrum, pos]; header and spectrum
\* are None when the call raised, pos counts the bytes taken from the stream.
LoadFailed(e, p) == [err |-> e, header |-> None, spectrum |-> None, pos |-> p]

\* return header, spectrum
LoadReturn(h, sp) ==
    IF sp.err # "none" THEN LoadFailed(sp.err, sp.pos)
    ELSE [err |-> "none", header |-> Some(h), spectrum |-> Some(sp.obj),
          pos |-> sp.pos]

\* spectrum = self._read_spectrum(reader, header, preprocess)
LoadSpectrum(hs, s, p) ==
    IF hs.err # "none" THEN LoadFailed(hs.err, hs.pos)
    ELSE LoadReturn(hs.h, ReadSpectrum(At(NewReader(s), hs.pos), hs.h, p))

\* header = self._read_header(reader, version=reader.read_int16())
LoadHeader(v, s, reg) ==
    IF v.err # "none" THEN HeaderStep(v.err, v.pos, EmptyHeader)
    ELSE ReadHeader(At(NewReader(s), v.pos), v.val, reg)

\* CSFileReader.load(f, preprocess).
CSFileReaderLoad(s, p, reg) ==
    LoadSpectrum(LoadHeader(ReadInt16(NewReader(s)), s, reg), s, p)

(***************************************************************************)
(* radarqc/writer.py: block writers                                        *)
(***************************************************************************)
StringWriters ==
    {"_CSBlockWriterZONE", "_CSBlockWriterCITY", "_CSBlockWriterSITD",
     "_CSBlockWriterTOOL", "_CSBlockWriterEND6"}

\* _CSBlockWriterTIME._write_block.
WriteBlockTIME(w, b) ==
    Emit(w, BEBytes(b.time_mark, 1) \o BEBytes(b.year, 2)
            \o BEBytes(b.month, 1) \o BEBytes(b.day, 1)
            \o BEBytes(b.hour, 1) \o BEBytes(b.minute, 1)
            \o b.seconds \o b.coverage_seconds \o b.hours_from_utc)

\* _CSBlockWriterLOCA._write_block.
WriteBlockLOCA(w, b) == Emit(w, b.latitude \o b.longitude \o b.altitude_meters)

\* _CSBlockWriterRCVI._write_block: the firmware string is written as it is.
WriteBlockRCVI(w, b) ==
    Emit(w, BEBytes(b.receiver_model, 4) \o BEBytes(b.antenna_model, 4)
            \o b.reference_gain_db \o b.firmware)

\* _CSBlockWriterGLRM._write_block: int(remove_dc) is 0 or 1.
WriteBlockGLRM(w, b) ==
    Emit(w, BEBytes(b.method, 1) \o BEBytes(b.version, 1)
            \o BEBytes(b.num_points_removed, 4)
            \o BEBytes(b.num_times_removed, 4)
            \o BEBytes(b.num_segments_removed, 4)
            \o b.point_power_threshold \o b.range_power_threshold
            \o b.range_bin_threshold
            \o BEBytes(IF b.remove_dc THEN 1 ELSE 0, 1))

\* _CSBlockWriterFOLS._write_block: four int32 per row.
WriteBlockFOLS(w, b) ==
    Emit(w, Concat([i \in 1..Len(b) |->
                       Concat([j \in 1..4 |-> BESignedBytes(b[i][j], 4)])]))

\* _CSBlockWriter.write_block: dispatch on the writer's class; the string
\* and the bytes writers emit the value as it is.
WriteBlock(cls, w, block) ==
    CASE cls = "_CSBlockWriterTIME" -> WriteBlockTIME(w, block)
      [] cls = "_CSBlockWriterLOCA" -> WriteBlockLOCA(w, block)
      [] cls = "_CSBlockWriterRCVI" -> WriteBlockRCVI(w, block)
      [] cls = "_CSBlockWriterGLRM" -> WriteBlockGLRM(w, block)
      [] cls = "_CSBlockWriterFOLS" -> WriteBlockFOLS(w, block)
      [] cls \in StringWriters -> WriteString(w, block)
      [] OTHER -> WriteBytes(w, block)

(***************************************************************************)
(* radarqc/writer.py: CSFileWriter                                         *)
(***************************************************************************)
V1_HEADER_SIZE == 10
V2_HEADER_SIZE == 16
V3_HEADER_SIZE == 24
V4_HEADER_SIZE == 72
V5_HEADER_SIZE == 100

\* _get_raw_timestamp: int((timestamp - datetime(1904, 1, 1)).total_seconds()).
GetRawTimestamp(ts) == ts.days * 86400 + ts.secs

RECURSIVE CalculateBlockSectionSize(_)
\* _calculate_block_section_size: 8 + len(block) per serialized block.
CalculateBlockSectionSize(blocks) ==
    IF blocks = <<>> THEN 0
    ELSE 8 + Len(Head(blocks)[2]) + CalculateBlockSectionSize(Tail(blocks))

CalculateV1Extent(header_size) == header_size - V1_HEADER_SIZE
CalculateV2Extent(header_size) == header_size - V2_HEADER_SIZE
CalculateV3Extent(header_size) == header_size - V3_HEADER_SIZE
CalculateV4Extent(header_size) == header_size - V4_HEADER_SIZE
CalculateV5Extent(header_size) == header_size - V5_HEADER_SIZE

\* _calculate_header_size(blocks, version), version in 1..6.
CalculateHeaderSize(blocks, version) ==
    CASE version = 1 -> V1_HEADER_SIZE
      [] version = 2 -> V2_HEADER_SIZE
      [] version = 3 -> V3_HEADER_SIZE
      [] version = 4 -> V4_HEADER_SIZE
      [] version = 5 -> V5_HEADER_SIZE
      [] version = 6 -> V5_HEADER_SIZE + 4 + CalculateBlockSectionSize(blocks)

RECURSIVE SerializeLoop(_, _, _)
\* The loop of _serialize_blocks over header.blocks.items().
SerializeLoop(items, wreg, raw) ==
    IF items = <<>> THEN [err |-> "none", raw |-> raw]
    ELSE LET block_writer == BlockWriterMake(wreg, Head(items)[1])
             blockio == WriteBlock(block_writer.cls, NewWriter, Head(items)[2])
         IN  IF block_writer.err # "none"
             THEN [err |-> block_writer.err, raw |-> raw]
             ELSE SerializeLoop(Tail(items), wreg,
                                DictSet(raw, Head(items)[1], blockio.out))

\* _serialize_blocks(header): tag -> the bytes its writer produces.
SerializeBlocks(header, wreg) == SerializeLoop(header.blocks, wreg, <<>>)

WriteHeaderBytesV1(w, h, header_size) ==
    WriteInt32(WriteUint32(WriteInt16(w, Val(h.version)),
                           GetRawTimestamp(Val(h.timestamp))),
               CalculateV1Extent(header_size))

WriteHeaderBytesV2(w, h, header_size) ==
    WriteInt32(WriteInt16(w, Val(h.cskind)), CalculateV2Extent(header_size))

WriteHeaderBytesV3(w, h, header_size) ==
    WriteInt32(WriteString(w, Val(h.site_code)), CalculateV3Extent(header_size))

\* write_int32 of a bool writes 1 for True and 0 for False.
BoolInt(b) == IF b THEN 1 ELSE 0

WriteHeaderBytesV4(w, h, header_size) ==
    Emit(w, BESignedBytes(Val(h.cover_minutes), 4)
            \o BESignedBytes(BoolInt(Val(h.deleted_source)), 4)
            \o BESignedBytes(BoolInt(Val(h.override_source)), 4)
            \o Val(h.start_freq_mhz) \o Val(h.rep_freq_mhz)
            \o Val(h.bandwidth_khz)
            \o BESignedBytes(BoolInt(Val(h.sweep_up)), 4)
            \o BESignedBytes(Val(h.num_doppler_cells), 4)
            \o BESignedBytes(Val(h.num_range_cells), 4)
            \o BESignedBytes(Val(h.first_range_cell), 4)
            \o Val(h.range_cell_dist_km)
            \o BESignedBytes(CalculateV4Extent(header_size), 4))

WriteHeaderBytesV5(w, h, header_size) ==
    Emit(w, BESignedBytes(Val(h.output_interval), 4)
            \o Val(h.create_type_code) \o Val(h.creator_version)
            \o BESignedBytes(Val(h.num_active_channels), 4)
            \o BESignedBytes(Val(h.num_spectra_channels), 4)
            \o BEBytes(Val(h.active_channels), 4)
            \o BESignedBytes(CalculateV5Extent(header_size), 4))

RECURSIVE WriteBlocksLoop(_, _)
\* for block_key, block in blocks.items(): key, len(block), block.
WriteBlocksLoop(w, blocks) ==
    IF blocks = <<>> THEN w
    ELSE WriteBlocksLoop(
             WriteBytes(WriteUint32(WriteString(w, Head(blocks)[1]),
                                    Len(Head(blocks)[2])),
                        Head(blocks)[2]),
             Tail(blocks))

\* _write_header_bytes_v6(self, writer, blocks).
WriteHeaderBytesV6(w, blocks) ==
    WriteBlocksLoop(WriteUint32(w, CalculateBlockSectionSize(blocks)), blocks)

\* A call self._write_header_bytes_v6(*args): the method takes writer and
\* blocks; any other number of arguments raises TypeError.
CallWriteHeaderBytesV6(w, args) ==
    IF Len(args) # 2 THEN [err |-> "TypeError", w |-> w]
    ELSE [err |-> "none", w |-> WriteHeaderBytesV6(args[1], args[2])]

\* _write_header(self, writer, header).  header.version on an object that
\* is no CSFileHeader (a BinaryWriter has no such attribute) raises
\* AttributeError; writer.write_int16 on an object that is no BinaryWriter
\* (CSFileHeader.__getattr__ looks the name up in its dict) raises KeyError.
\* The last call passes (writer, header, blocks).
WriteHeader(writer, header, wreg) ==
    IF header.kind # "CSFileHeader" THEN [err |-> "AttributeError", w |-> writer]
    ELSE IF IsNone(header.version) THEN [err |-> "TypeError", w |-> writer]
    ELSE IF Val(header.version) < 1 \/ Val(header.version) > 6
    THEN [err |-> "ValueError", w |-> writer]
    ELSE LET version == Val(header.version)
             blocks == SerializeBlocks(header, wreg)
             header_size == CalculateHeaderSize(blocks.raw, version)
             w1 == WriteHeaderBytesV1(writer, header, header_size)
             w2 == WriteHeaderBytesV2(w1, header, header_size)
             w3 == WriteHeaderBytesV3(w2, header, header_size)
             w4 == WriteHeaderBytesV4(w3, header, header_size)
             w5 == WriteHeaderBytesV5(w4, header, header_size)
         IN  IF blocks.err # "none" THEN [err |-> blocks.err, w |-> writer]
             ELSE IF writer.kind # "BinaryWriter"
             THEN [err |-> "KeyError", w |-> writer]
             ELSE IF version = 1 THEN [err |-> "none", w |-> w1]
             ELSE IF version = 2 THEN [err |-> "none", w |-> w2]
             ELSE IF version = 3 THEN [err |-> "none", w |-> w3]
             ELSE IF version = 4 THEN [err |-> "none", w |-> w4]
             ELSE IF version = 5 THEN [err |-> "none", w |-> w5]
             ELSE CallWriteHeaderBytesV6(w5, <<w5, header, blocks.raw>>)

\* _write_real_row / _write_complex_row: the float32 of the row, big-endian.
WriteRealRow(w, row) == Emit(w, Concat(row))
WriteComplexRow(w, row) ==
    Emit(w, Concat([j \in 1..Len(row) |-> row[j][1] \o row[j][2]]))

RECURSIVE WriteCells(_, _, _, _, _)
\* for i in range(header.num_range_cells): the rows of cell i.
WriteCells(w, h, sp, i, n) ==
    IF i > n THEN w
    ELSE LET w6 == WriteComplexRow(WriteComplexRow(WriteComplexRow(
                       WriteRealRow(WriteRealRow(WriteRealRow(w,
                           sp.antenna1[i]), sp.antenna2[i]), sp.antenna3[i]),
                       sp.cross12[i]), sp.cross13[i]), sp.cross23[i])
         IN  WriteCells(IF Val(h.cskind) >= 2
                        THEN WriteRealRow(w6, sp.quality[i]) ELSE w6,
                        h, sp, i + 1, n)

\* _write_spectrum_data(header, spectrum, writer).
WriteSpectrumData(h, sp, w) ==
    IF IsNone(h.num_range_cells) THEN [err |-> "TypeError", w |-> w]
    ELSE [err |-> "none", w |-> WriteCells(w, h, sp, 1, Val(h.num_range_cells))]

\* A dump that writes the version to the stream before _write_header is
\* called.
DumpVersionFirst(header, spectrum, wreg) ==
    [err |-> WriteHeader(header, NewWriter, wreg).err,
     out |-> WriteInt16(NewWriter, Val(header.version)).out]

\* CSFileWriter.dump(header, spectrum, f): self._write_header(header, writer)
\* passes the header where _write_header takes the writer and the writer
\* where it takes the header, so the stream's writer is not the object
\* _write_header writes to.  The result is [err, out], out the bytes the
\* stream holds when the call returns or raises.
CSFileWriterDump(header, spectrum, wreg) ==
    LET writer == NewWriter
        hw == WriteHeader(header, writer, wreg)
        sw == WriteSpectrumData(header, spectrum, writer)
    IN  IF hw.err # "none" THEN [err |-> hw.err, out |-> writer.out]
        ELSE [err |-> sw.err, out |-> sw.w.out]

(***************************************************************************)
(* radarqc/csfile.py                                                       *)
(***************************************************************************)
\* load(file, preprocess=None): Identity() when no preprocessor is given.
Load(s, preprocess, reg) ==
    CSFileReaderLoad(s, IF preprocess = "None" THEN "Identity" ELSE preprocess, reg)

\* loads(archive, preprocess=None).
Loads(s, preprocess, reg) == Load(s, preprocess, reg)

\* dump(obj, file) and dumps(obj): obj.header and obj.spectrum are written
\* to the file, respectively to a new archive whose buffer is returned.
Dump(obj, wreg) == CSFileWriterDump(obj.header, obj.spectrum, wreg)
Dumps(obj, wreg) == Dump(obj, wreg)

(***************************************************************************)
(* Inputs.  A CS byte stream is described by the values of its fields and  *)
(* laid out as in section 6.1 of the specification; the same description   *)
(* gives the CSFile a caller hands to dump.                                *)
(***************************************************************************)
MaxBlocks == 2       \* blocks in a v6 section
MaxRange == 1        \* num_range_cells
MaxDoppler == 1      \* num_doppler_cells
MaxCsKind == 2       \* cskind
MaxFlag == 2         \* the int32 stored for deleted_source
VersionMargin == 1   \* versions tried below 1 and above 6

Versions == (1 - VersionMargin)..(6 + VersionMargin)
Timestamps == {0, 172805}
SiteCodes == {<<65, 66, 67, 68>>, <<65, 66, 0, 0>>}
Preprocessors == {"None", "Abs"}

\* The 31 bytes of a TIME block.
TimePayload ==
    <<1, 7, 230, 11, 6, 7, 10>> \o [i \in 1..24 |-> IF i % 8 = 1 THEN 64 ELSE 0]

\* <<tag, payload>>: the blocks streams are built from.
BlockPool ==
    { <<ZONE, <<85, 84, 67>>>>,
      <<XXXX, <<1, 2, 3, 4, 5>>>>,
      <<TIME, TimePayload>>,
      <<TIME, TimePayload \o <<0>>>> }

BlockSeqs == UNION {[1..n -> BlockPool] : n \in 0..MaxBlocks}

\* The payload length the schema of a tag fixes (section 6.2); other tags
\* take any length.
SchemaLength(tag, len) ==
    CASE tag = TIME -> 31
      [] tag = LOCA -> 24
      [] tag = RCVI -> 48
      [] tag = GLRM -> 39
      [] OTHER -> len

DefaultFile ==
    [version |-> 6, ts |-> 0, cskind |-> 2, site |-> <<65, 66, 67, 68>>,
     flag |-> 1, nd |-> 1, nr |-> 1, blocks |-> <<>>, section_delta |-> 0]

\* Every version with every spectrum shape.
LayerFiles ==
    {[DefaultFile EXCEPT !.version = v, !.cskind = k, !.nr = nr, !.nd = nd] :
        v \in Versions, k \in 0..MaxCsKind, nr \in 0..MaxRange,
        nd \in 0..MaxDoppler}

\* v6 files with every block section, the section size right or off by one
\* (a uint32 is not below 0).
BlockFiles ==
    {f \in {[DefaultFile EXCEPT !.blocks = bs, !.section_delta = d] :
                bs \in BlockSeqs, d \in {-1, 0, 1}} :
        f.blocks # <<>> \/ f.section_delta >= 0}

\* Files whose stored flags and strings are not in normal form.
FlagFiles ==
    {[DefaultFile EXCEPT !.version = v, !.flag = g, !.site = c, !.ts = ts] :
        v \in 3..6, g \in 0..MaxFlag, c \in SiteCodes, ts \in Timestamps}

Files == LayerFiles \cup BlockFiles \cup FlagFiles

\* The layers a stream carries.
Layers(f) == IF f.version < 1 THEN 1 ELSE IF f.version > 6 THEN 6 ELSE f.version

RECURSIVE BlockBytes(_)
BlockBytes(bs) ==
    IF bs = <<>> THEN <<>>
    ELSE Head(bs)[1] \o BEBytes(Len(Head(bs)[2]), 4) \o Head(bs)[2]
         \o BlockBytes(Tail(bs))

FloatOf(ch, i, j, part) == <<64 + ch, i, j, part>>
RealRowOf(ch, i, nd) == [j \in 1..nd |-> FloatOf(ch, i, j, 0)]
ComplexRowOf(ch, i, nd) ==
    [j \in 1..nd |-> <<FloatOf(ch, i, j, 0), FloatOf(ch, i, j, 1)>>]

HasQuality(f) == f.cskind >= 2

\* The spectrum bytes of range cell i.
CellBytes(f, i) ==
    Concat(RealRowOf(1, i, f.nd)) \o Concat(RealRowOf(2, i, f.nd))
    \o Concat(RealRowOf(3, i, f.nd))
    \o Concat([j \in 1..(2 * f.nd) |-> FloatOf(4, i, (j + 1) \div 2, (j + 1) % 2)])
    \o Concat([j \in 1..(2 * f.nd) |-> FloatOf(5, i, (j + 1) \div 2, (j + 1) % 2)])
    \o Concat([j \in 1..(2 * f.nd) |-> FloatOf(6, i, (j + 1) \div 2, (j + 1) % 2)])
    \o (IF HasQuality(f) THEN Concat(RealRowOf(7, i, f.nd)) ELSE <<>>)

SpectrumBytes(f) ==
    IF Layers(f) < 4 THEN <<>> ELSE Concat([i \in 1..f.nr |-> CellBytes(f, i)])

SectionBytes(f) == BlockBytes(f.blocks)

\* The header size of the stream and the bytes of its header.
HeaderSizeOf(f) ==
    LET fixed == <<10, 16, 24, 72, 100>>
    IN  IF Layers(f) = 6 THEN 104 + Len(SectionBytes(f)) ELSE fixed[Layers(f)]

HeaderBytes(f) ==
    LET n == HeaderSizeOf(f)
        l1 == BESignedBytes(f.version, 2) \o BEBytes(f.ts, 4) \o BESignedBytes(n - 10, 4)
        l2 == BESignedBytes(f.cskind, 2) \o BESignedBytes(n - 16, 4)
        l3 == f.site \o BESignedBytes(n - 24, 4)
        l4 == BESignedBytes(60, 4) \o BESignedBytes(f.flag, 4)
              \o BESignedBytes(0, 4) \o <<65, 32, 0, 0>> \o <<64, 0, 0, 0>>
              \o <<66, 200, 0, 0>> \o BESignedBytes(1, 4)
              \o BESignedBytes(f.nd, 4) \o BESignedBytes(f.nr, 4)
              \o BESignedBytes(0, 4) \o <<63, 128, 0, 0>>
              \o BESignedBytes(n - 72, 4)
        l5 == BESignedBytes(1, 4) \o <<67, 83, 80, 82>> \o <<49, 46, 48, 48>>
              \o BESignedBytes(3, 4) \o BESignedBytes(3, 4) \o BEBytes(7, 4)
              \o BESignedBytes(n - 100, 4)
        l6 == BEBytes(Len(SectionBytes(f)) + f.section_delta, 4) \o SectionBytes(f)
        ls == <<l1, l2, l3, l4, l5, l6>>
    IN  Concat([k \in 1..Layers(f) |-> ls[k]])

Encode(f) == HeaderBytes(f) \o SpectrumBytes(f)

\* The value of a block as the reader class of its tag decodes the payload.
BlockValueOf(b, h) ==
    ReadBlock(RegistryCreate(RegisterAll(EmptyRegistry, ReaderClasses), b[1],
                             "_RawBlockReader").cls,
              NewReader(b[2]), Len(b[2]), h).val

RECURSIVE BlocksOf(_, _, _)
BlocksOf(bs, h, d) ==
    IF bs = <<>> THEN d
    ELSE BlocksOf(Tail(bs), h, DictSet(d, RStripNul(Head(bs)[1]), BlockValueOf(Head(bs), h)))

\* The header a caller builds for the file: CSFileHeader() and one
\* assignment per field of the layers 1..version.
HeaderOf(f) ==
    LET v == f.version
        h1 == [EmptyHeader EXCEPT !.version = Some(v),
                                  !.timestamp = Some(ParseTimestamp(f.ts))]
        h2 == IF v < 2 THEN h1 ELSE [h1 EXCEPT !.cskind = Some(f.cskind)]
        h3 == IF v < 3 THEN h2 ELSE [h2 EXCEPT !.site_code = Some(RStripNul(f.site))]
        h4 == IF v < 4 THEN h3
              ELSE [h3 EXCEPT !.cover_minutes = Some(60),
                              !.deleted_source = Some(f.flag # 0),
                              !.override_source = Some(FALSE),
                              !.start_freq_mhz = Some(<<65, 32, 0, 0>>),
                              !.rep_freq_mhz = Some(<<64, 0, 0, 0>>),
                              !.bandwidth_khz = Some(<<66, 200, 0, 0>>),
                              !.sweep_up = Some(TRUE),
                              !.num_doppler_cells = Some(f.nd),
                              !.num_range_cells = Some(f.nr),
                              !.first_range_cell = Some(0),
                              !.range_cell_dist_km = Some(<<63, 128, 0, 0>>)]
        h5 == IF v < 5 THEN h4
              ELSE [h4 EXCEPT !.output_interval = Some(1),
                              !.create_type_code = Some(<<67, 83, 80, 82>>),
                              !.creator_version = Some(<<49, 46, 48, 48>>),
                              !.num_active_channels = Some(3),
                              !.num_spectra_channels = Some(3),
                              !.active_channels = Some(7)]
    IN  IF v < 6 THEN h5 ELSE [h5 EXCEPT !.blocks = BlocksOf(f.blocks, h5, <<>>)]

\* The spectrum a caller holds for the file.
SpectrumOf(f) ==
    IF Layers(f) < 4 THEN NoSpectrum
    ELSE [antenna1 |-> [i \in 1..f.nr |-> RealRowOf(1, i, f.nd)],
          antenna2 |-> [i \in 1..f.nr |-> RealRowOf(2, i, f.nd)],
          antenna3 |-> [i \in 1..f.nr |-> RealRowOf(3, i, f.nd)],
          cross12 |-> [i \in 1..f.nr |-> ComplexRowOf(4, i, f.nd)],
          cross13 |-> [i \in 1..f.nr |-> ComplexRowOf(5, i, f.nd)],
          cross23 |-> [i \in 1..f.nr |-> ComplexRowOf(6, i, f.nd)],
          quality |-> IF HasQuality(f)
                      THEN [i \in 1..f.nr |-> RealRowOf(7, i, f.nd)] ELSE <<>>]

\* CSFile(header, spectrum).
CSFileOf(f) == [header |-> HeaderOf(f), spectrum |-> SpectrumOf(f)]

(***************************************************************************)
(* The package as a state machine: its two registries, and the calls a     *)
(* program makes to it.  The package is synchronous and single-threaded:   *)
(* a call is one atomic step that leaves its outcome in result, and the    *)
(* caller takes the outcome (Return) before it makes the next call.        *)
(***************************************************************************)
UserTags == {ZONE, USR1}
UserReaders == {"UserReaderA", "UserReaderB"}
UserWriters == {"UserWriterA"}
LookupTags == {ZONE, TIME, XXXX, USR1, NoneTag}

NoCall ==
    [op |-> "none", f |-> DefaultFile, s |-> <<>>, p |-> "None",
     tag |-> NoneTag, cls |-> "NoClass", reg |-> EmptyRegistry,
     arg |-> <<>>]

NoResult ==
    [err |-> "none", header |-> None, spectrum |-> None, pos |-> 0,
     out |-> <<>>, cls |-> "NoClass", val |-> <<>>]

\* The outcome of a load and of a dump as the caller sees it.
LoadResult(r) ==
    [NoResult EXCEPT !.err = r.err, !.header = r.header,
                     !.spectrum = r.spectrum, !.pos = r.pos]
DumpResult(r) == [NoResult EXCEPT !.err = r.err, !.out = r.out]

\* The outcome of Spectrum(...): the object, or the exception.
SpectrumResult(r) ==
    [NoResult EXCEPT !.err = r.err,
                     !.spectrum = IF r.err = "none" THEN Some(r.obj) ELSE None]

\* The processors a caller passes to Spectrum.
Processors == {"Identity", "Abs"}

\* No client and no server is running.
NoExchange ==
    [f |-> DefaultFile, client |-> "none", server |-> "none", sent |-> 0,
     buffered |-> 0, ack |-> <<>>, closed |-> FALSE, ret |-> <<>>,
     raised |-> "none"]

\* After import of radarqc.reader and radarqc.writer.
Init ==
    /\ readers = RegisterAll(EmptyRegistry, ReaderClasses)
    /\ writers = RegisterAll(EmptyRegistry, WriterClasses)
    /\ call = NoCall
    /\ result = NoResult
    /\ exchange = NoExchange

\* class X(_CSBlockReader, tag=tag): __init_subclass__ registers X.
DefineReader(tag, cls) ==
    LET r == RegistryRegister(readers, tag, cls)
    IN  /\ call.op = "none"
        /\ readers' = r.reg
        /\ call' = [NoCall EXCEPT !.op = "define_reader", !.tag = tag,
                                  !.cls = cls, !.reg = readers]
        /\ result' = [NoResult EXCEPT !.err = r.err]
        /\ UNCHANGED <<writers, exchange>>

\* class X(_CSBlockWriter, tag=tag): __init_subclass__ registers X.
DefineWriter(tag, cls) ==
    LET r == RegistryRegister(writers, tag, cls)
    IN  /\ call.op = "none"
        /\ writers' = r.reg
        /\ call' = [NoCall EXCEPT !.op = "define_writer", !.tag = tag,
                                  !.cls = cls, !.reg = writers]
        /\ result' = [NoResult EXCEPT !.err = r.err]
        /\ UNCHANGED <<readers, exchange>>

\* _CSBlockReader.make(tag), as CSFileReader._get_block_parser calls it.
MakeReader(tag) ==
    LET r == BlockReaderMake(readers, tag)
    IN  /\ call.op = "none"
        /\ call' = [NoCall EXCEPT !.op = "make_reader", !.tag = tag, !.reg = readers]
        /\ result' = [NoResult EXCEPT !.err = r.err, !.cls = r.cls]
        /\ UNCHANGED <<readers, writers, exchange>>

\* _CSBlockWriter.make(tag), as CSFileWriter._get_block_parser calls it.
MakeWriter(tag) ==
    LET r == BlockWriterMake(writers, tag)
    IN  /\ call.op = "none"
        /\ call' = [NoCall EXCEPT !.op = "make_writer", !.tag = tag, !.reg = writers]
        /\ result' = [NoResult EXCEPT !.err = r.err, !.cls = r.cls]
        /\ UNCHANGED <<readers, writers, exchange>>

\* ClassRegistry.create(tag, _RawBlockReader) on the readers' registry.
CreateReader(tag) ==
    LET r == RegistryCreate(readers, tag, "_RawBlockReader")
    IN  /\ call.op = "none"
        /\ call' = [NoCall EXCEPT !.op = "create_reader", !.tag = tag, !.reg = readers]
        /\ result' = [NoResult EXCEPT !.err = r.err, !.cls = r.cls]
        /\ UNCHANGED <<readers, writers, exchange>>

\* csfile.loads(archive, preprocess).
LoadsCall(f, p) ==
    /\ call.op = "none"
    /\ call' = [NoCall EXCEPT !.op = "loads", !.f = f, !.s = Encode(f), !.p = p]
    /\ result' = LoadResult(Loads(Encode(f), p, readers))
    /\ UNCHANGED <<readers, writers, exchange>>

\* csfile.dumps(obj).
DumpsCall(f) ==
    /\ call.op = "none"
    /\ call' = [NoCall EXCEPT !.op = "dumps", !.f = f]
    /\ result' = DumpResult(Dumps(CSFileOf(f), writers))
    /\ UNCHANGED <<readers, writers, exchange>>

\* csfile.dumps(csfile.loads(archive)): an exception of loads leaves the
\* expression before dumps is called.
DumpLoaded(l, wreg) ==
    IF l.err # "none" THEN LoadResult(l)
    ELSE [LoadResult(l) EXCEPT
             !.err = Dumps([header |-> Val(l.header),
                            spectrum |-> Val(l.spectrum)], wreg).err,
             !.out = Dumps([header |-> Val(l.header),
                            spectrum |-> Val(l.spectrum)], wreg).out]

RoundTripCall(f) ==
    /\ call.op = "none"
    /\ call' = [NoCall EXCEPT !.op = "roundtrip", !.f = f, !.s = Encode(f)]
    /\ result' = DumpLoaded(Loads(Encode(f), "None", readers), writers)
    /\ UNCHANGED <<readers, writers, exchange>>

\* Spectrum(antenna1, ..., quality, preprocess) on the arrays of a file.
SpectrumCall(f, p) ==
    /\ call.op = "none"
    /\ call' = [NoCall EXCEPT !.op = "spectrum", !.f = f, !.p = p]
    /\ result' = SpectrumResult(
                     SpectrumInit(SpectrumOf(f).antenna1, SpectrumOf(f).antenna2,
                                  SpectrumOf(f).antenna3, SpectrumOf(f).cross12,
                                  SpectrumOf(f).cross13, SpectrumOf(f).cross23,
                                  SpectrumOf(f).quality, p))
    /\ UNCHANGED <<readers, writers, exchange>>

\* The processors and signals a caller composes: the plain processors,
\* pipelines of up to MaxProcessors of them, and the two nestings of three.
MaxProcessors == 3
PlainProcessors == {Processor(cls) : cls \in {"Identity", "Abs", "Rectifier"}}
FlatPipelines ==
    {CompositeProcessor(s) :
        s \in UNION {[1..n -> PlainProcessors] : n \in 0..MaxProcessors}}
NestedPipelines ==
    {CompositeProcessor(<<CompositeProcessor(<<a, b>>), c>>) :
        a \in PlainProcessors, b \in PlainProcessors, c \in PlainProcessors}
    \cup {CompositeProcessor(<<a, CompositeProcessor(<<b, c>>)>>) :
        a \in PlainProcessors, b \in PlainProcessors, c \in PlainProcessors}
Pipelines == PlainProcessors \cup FlatPipelines \cup NestedPipelines
\* 1.0, -2.0 and 0.0 as float32.
Samples == {<<63, 128, 0, 0>>, <<192, 0, 0, 0>>, <<0, 0, 0, 0>>}
Signals ==
    {<<<<x>>>> : x \in Samples} \cup {<<<<<<192, 0, 0, 0>>, <<63, 128, 0, 0>>>>>>}

\* proc(signal) for a processor object proc.
ProcessCall(proc, signal) ==
    /\ call.op = "none"
    /\ call' = [NoCall EXCEPT !.op = "process", !.arg = <<proc, signal>>]
    /\ result' = [NoResult EXCEPT !.val = SignalProcessorCall(proc, signal)]
    /\ UNCHANGED <<readers, writers, exchange>>

\* Stored seconds: the first and the last second of a day, and the largest
\* value below 2^31.
RawSeconds == {0, 1, 86399, 86400, 172805, 2147483647}

\* _get_raw_timestamp(_parse_timestamp(seconds)): the datetime and the
\* seconds stored for it.
TimestampCall(seconds) ==
    /\ call.op = "none"
    /\ call' = [NoCall EXCEPT !.op = "timestamp", !.arg = <<seconds>>]
    /\ result' = [NoResult EXCEPT
                     !.val = <<ParseTimestamp(seconds),
                               GetRawTimestamp(ParseTimestamp(seconds))>>]
    /\ UNCHANGED <<readers, writers, exchange>>

\* CSFileReader()._read_header_bytes_v6(reader, header) on the stream of
\* a v6 file, the reader at the block section (after the 100 bytes of the
\* layers 1..5) and the header that of the layers read.
ReadSectionCall(f) ==
    /\ call.op = "none"
    /\ call' = [NoCall EXCEPT !.op = "section", !.f = f, !.s = Encode(f)]
    /\ result' =
          [NoResult EXCEPT
              !.err = ReadHeaderBytesV6(At(NewReader(Encode(f)), V5_HEADER_SIZE),
                                        HeaderOf([f EXCEPT !.blocks = <<>>]),
                                        readers).err,
              !.pos = ReadHeaderBytesV6(At(NewReader(Encode(f)), V5_HEADER_SIZE),
                                        HeaderOf([f EXCEPT !.blocks = <<>>]),
                                        readers).pos,
              !.header = Some(ReadHeaderBytesV6(
                                  At(NewReader(Encode(f)), V5_HEADER_SIZE),
                                  HeaderOf([f EXCEPT !.blocks = <<>>]),
                                  readers).h)]
    /\ UNCHANGED <<readers, writers, exchange>>

\* The caller takes the outcome of the call.
Return ==
    /\ call.op # "none"
    /\ call' = NoCall
    /\ result' = NoResult
    /\ UNCHANGED <<readers, writers, exchange>>

Next ==
    \/ \E tag \in UserTags, cls \in UserReaders : DefineReader(tag, cls)
    \/ \E tag \in UserTags, cls \in UserWriters : DefineWriter(tag, cls)
    \/ \E tag \in LookupTags : MakeReader(tag)
    \/ \E tag \in LookupTags : MakeWriter(tag)
    \/ \E tag \in LookupTags : CreateReader(tag)
    \/ \E f \in Files, p \in Preprocessors : LoadsCall(f, p)
    \/ \E f \in Files : DumpsCall(f)
    \/ \E f \in Files : RoundTripCall(f)
    \/ \E f \in Files, p \in Processors : SpectrumCall(f, p)
    \/ \E proc \in Pipelines, signal \in Signals : ProcessCall(proc, signal)
    \/ \E seconds \in RawSeconds : TimestampCall(seconds)
    \/ \E f \in BlockFiles : ReadSectionCall(f)
    \/ Return

Spec == Init /\ [][Next]_vars

(***************************************************************************)
(* examples/client.py and examples/server.py: one client sends one file    *)
(* to the server over a TCP connection and reads the acknowledgement.      *)
(* exchange.sent counts the bytes of the file the client's socket has      *)
(* sent, exchange.buffered those still in the client's write buffer,       *)
(* exchange.ack holds the bytes the server has sent.                       *)
(***************************************************************************)
\* The size of the buffer of a file object made by socket.makefile.
BufferSize == 64

RECURSIVE RawWrites(_, _)
\* BufferedWriter.write of data that does not fit the empty buffer: the
\* raw stream is written to while more than one buffer is left, each send
\* taking chunk bytes at most; the bytes returned stay in the buffer.
RawWrites(remaining, chunk) ==
    IF remaining > BufferSize
    THEN RawWrites(remaining - (IF chunk < remaining THEN chunk ELSE remaining),
                   chunk)
    ELSE remaining

\* sockfile.write(raw) on the new file object: the bytes left in the buffer.
BufferedWrite(len, chunk) ==
    IF len <= BufferSize THEN len ELSE RawWrites(len, chunk)

\* The server process is listening, the client process has read the file.
ExchangeInit ==
    /\ readers = RegisterAll(EmptyRegistry, ReaderClasses)
    /\ writers = RegisterAll(EmptyRegistry, WriterClasses)
    /\ call = NoCall
    /\ result = NoResult
    /\ exchange \in {[NoExchange EXCEPT !.f = f, !.client = "start",
                                        !.server = "listening"] : f \in Files}

\* client: sock.connect(address); sockfile = sock.makefile(mode="wrb");
\* sockfile.write(raw).  No flush follows the write.
ClientWrite(chunk) ==
    /\ exchange.client = "start"
    /\ exchange' =
          [exchange EXCEPT
              !.client = "read",
              !.buffered = BufferedWrite(Len(Encode(exchange.f)), chunk),
              !.sent = Len(Encode(exchange.f))
                          - BufferedWrite(Len(Encode(exchange.f)), chunk)]
    /\ UNCHANGED <<readers, writers, call, result>>

\* Server.run: conn, _ = sock.accept(); sockfile = conn.makefile(mode="rwb").
ServerAccept ==
    /\ exchange.server = "listening"
    /\ exchange.client = "read"
    /\ exchange' = [exchange EXCEPT !.server = "load"]
    /\ UNCHANGED <<readers, writers, call, result>>

\* csfile.load(sockfile) on the bytes that have arrived: a read past them
\* waits for more.
ServerLoad(x) == Load(SubSeq(Encode(x.f), 1, x.sent), "None", readers)

\* Server.run from csfile.load(sockfile) on.  When load returns, the
\* callbacks run, the acknowledgement is written and flushed and the
\* connection is closed; when load raises, the exception leaves run and the
\* process ends, which closes the connection.
ServerServe ==
    /\ exchange.server = "load"
    /\ ServerLoad(exchange).err # "Truncated"
    /\ exchange' =
          IF ServerLoad(exchange).err = "none"
          THEN [exchange EXCEPT !.server = "listening", !.ack = <<48>>,
                                !.closed = TRUE]
          ELSE [exchange EXCEPT !.server = "ended", !.closed = TRUE,
                                !.raised = ServerLoad(exchange).err]
    /\ UNCHANGED <<readers, writers, call, result>>

\* client: return int(sockfile.read(1).decode()).  The read waits for one
\* byte or the end of the stream; at the end of the stream it returns b""
\* and int("") raises ValueError, unless the connection was reset.
ClientRead(reset) ==
    /\ exchange.client = "read"
    /\ exchange.ack # <<>> \/ exchange.closed
    /\ exchange' =
          IF exchange.ack # <<>>
          THEN [exchange EXCEPT !.client = "done",
                                !.ret = <<exchange.ack[1] - 48>>,
                                !.ack = Tail(exchange.ack)]
          ELSE [exchange EXCEPT !.client = "failed",
                                !.ret = <<IF reset THEN "ConnectionResetError"
                                          ELSE "ValueError">>]
    /\ UNCHANGED <<readers, writers, call, result>>

ExchangeNext ==
    \/ \E chunk \in {BufferSize, 2 * BufferSize, 8 * BufferSize} : ClientWrite(chunk)
    \/ ServerAccept
    \/ ServerServe
    \/ \E reset \in BOOLEAN : ClientRead(reset)

\* Each process runs as long as it has a step to take.
ExchangeSpec == ExchangeInit /\ [][ExchangeNext]_vars /\ WF_vars(ExchangeNext)


(***************************************************************************)
(* The claims.  Each is a predicate on the state a call leaves: call holds *)
(* the operation and its arguments, result its outcome.                    *)
(***************************************************************************)
\* The tags of the blocks of a file.
TagsOf(f) == [i \in 1..Len(f.blocks) |-> f.blocks[i][1]]

\* A well-formed version-6 stream: the section size is the sum of its
\* blocks, every payload has the length the schema of its tag fixes, the
\* flags are stored as 0 or 1 and the strings carry no NUL padding.
WellFormedV6(f) ==
    /\ f.version = 6
    /\ f.section_delta = 0
    /\ \A i \in 1..Len(f.blocks) :
          Len(f.blocks[i][2]) = SchemaLength(f.blocks[i][1], Len(f.blocks[i][2]))
    /\ f.flag \in {0, 1}
    /\ f.site = RStripNul(f.site)
    /\ f.nr >= 1 /\ f.nd >= 1 /\ f.cskind >= 2

DistinctTags(f) ==
    \A i, j \in 1..Len(f.blocks) : f.blocks[i][1] = f.blocks[j][1] => i = j

\* The cumulative header size through layer k, where the extent of layer k
\* ends, and the extent stored there.
ExtentEnd ==
    <<V1_HEADER_SIZE, V2_HEADER_SIZE, V3_HEADER_SIZE, V4_HEADER_SIZE,
      V5_HEADER_SIZE>>
ExtentAt(out, k) == BESigned(SubSeq(out, ExtentEnd[k] - 3, ExtentEnd[k]))

\* C1: for every well-formed version-6 stream s whose block tags are all
\* registered, dumps(loads(s)) with no preprocessor returns s byte for byte.
C1_RoundTripKnownTags ==
    (/\ call.op = "roundtrip"
     /\ WellFormedV6(call.f)
     /\ \A i \in 1..Len(call.f.blocks) : TagsOf(call.f)[i] \in DOMAIN readers)
    => (result.err = "none" /\ result.out = call.s)

\* C2: for every well-formed version-6 stream s with a block whose tag is
\* not registered, load keeps the payload of that block as the bytes stored
\* and dumps(loads(s)) returns s byte for byte.
C2_RoundTripUnknownTag ==
    (/\ call.op = "roundtrip"
     /\ WellFormedV6(call.f)
     /\ DistinctTags(call.f)
     /\ \E i \in 1..Len(call.f.blocks) : TagsOf(call.f)[i] \notin DOMAIN readers)
    => (/\ result.err = "none"
        /\ \A i \in 1..Len(call.f.blocks) :
              TagsOf(call.f)[i] \notin DOMAIN readers
              => Val(result.header).blocks[i] = call.f.blocks[i]
        /\ result.out = call.s)

\* C3: load leaves the entries of header.blocks in the order of the blocks
\* of the section, and dump emits the blocks in the order of header.blocks.
C3_BlockOrder ==
    /\ (call.op = "loads" /\ WellFormedV6(call.f) /\ DistinctTags(call.f))
       => (/\ result.err = "none"
           /\ DictKeys(Val(result.header).blocks) = TagsOf(call.f))
    /\ (/\ call.op = "dumps" /\ WellFormedV6(call.f) /\ DistinctTags(call.f)
        /\ \A i \in 1..Len(call.f.blocks) : TagsOf(call.f)[i] # TIME)
       => (/\ result.err = "none"
           /\ SubSeq(result.out, 105, 104 + Len(SectionBytes(call.f)))
                 = BlockBytes(HeaderOf(call.f).blocks))

\* C4: in the file dump produces at version V in 1..6 the extent of each
\* layer k <= min(V, 5) is the header size less the size through layer k,
\* and at V = 6 the section size is the sum over the blocks of 8 + the
\* payload length.
C4_ExtentConsistency ==
    (/\ call.op = "dumps"
     /\ call.f.version \in 1..6
     /\ DistinctTags(call.f)
     /\ \A i \in 1..Len(call.f.blocks) : TagsOf(call.f)[i] # TIME)
    => (/\ result.err = "none"
        /\ \A k \in 1..5 :
              k <= call.f.version
              => ExtentAt(result.out, k) = HeaderSizeOf(call.f) - ExtentEnd[k]
        /\ call.f.version = 6
           => BEValue(SubSeq(result.out, 101, 104)) = Len(SectionBytes(call.f)))

\* C5: load of a stream whose version is outside 1..6 raises the error of
\* the version check (ValueError) and returns no header and no spectrum.
C5_UnsupportedVersion ==
    (call.op = "loads" /\ call.f.version \notin 1..6)
    => (/\ result.err = "ValueError"
        /\ result.header = None
        /\ result.spectrum = None)

\* C6: registering a class for a tag that has one in the same registry
\* raises ClassRegistryError, and the registry maps the tag to the class
\* registered first.
C6_DuplicateTagRaises ==
    /\ (call.op = "define_reader" /\ call.tag \in DOMAIN call.reg)
       => (/\ result.err = "ClassRegistryError"
           /\ call.tag \in DOMAIN readers
           /\ readers[call.tag] = call.reg[call.tag])
    /\ (call.op = "define_writer" /\ call.tag \in DOMAIN call.reg)
       => (/\ result.err = "ClassRegistryError"
           /\ call.tag \in DOMAIN writers
           /\ writers[call.tag] = call.reg[call.tag])

\* C6, its case: a second class defined for USR1 after the first.
C6_Witness ==
    /\ call.op = "define_reader"
    /\ call.tag = USR1
    /\ call.tag \in DOMAIN call.reg
    /\ call.cls # call.reg[call.tag]
    /\ result.err = "ClassRegistryError"
    /\ readers[USR1] = call.reg[USR1]

\* C7: the lookup of a block codec for a tag with no registered class
\* returns the raw pass-through codec and never raises.
C7_UnknownTagLookup ==
    /\ (call.op = "make_reader" /\ call.tag \notin DOMAIN call.reg)
       => (result.err = "none" /\ result.cls = "_RawBlockReader")
    /\ (call.op = "make_writer" /\ call.tag \notin DOMAIN call.reg)
       => (result.err = "none" /\ result.cls = "_RawBlockWriter")

\* C8: when the section size stored in a version-6 stream is less than the
\* sum of its blocks, so that the remaining size goes below 0, load raises
\* the malformed-block-section error.
C8_NegativeSectionSize ==
    (/\ call.op = "loads"
     /\ WellFormedV6([call.f EXCEPT !.section_delta = 0])
     /\ call.f.blocks # <<>>
     /\ call.f.section_delta < 0)
    => result.err = "MalformedBlockSection"

\* C9: when the decoder of a block takes a number of bytes other than the
\* block_size stored for the block, load raises the malformed-block-section
\* error.
C9_DecoderSizeMismatch ==
    (/\ call.op = "loads"
     /\ call.f.version = 6
     /\ call.f.section_delta = 0
     /\ \E i \in 1..Len(call.f.blocks) :
           Len(call.f.blocks[i][2])
              # SchemaLength(call.f.blocks[i][1], Len(call.f.blocks[i][2])))
    => result.err = "MalformedBlockSection"

\* C10: load of a file with spectrum rows succeeds whether cskind < 2 or
\* not; the spectrum has the quality channel iff cskind >= 2, and the
\* spectrum bytes read are num_range_cells * num_doppler_cells * 4 * (9 + 1)
\* with it and * 9 without it.
C10_QualityPresence ==
    (/\ call.op = "loads"
     /\ WellFormedV6([call.f EXCEPT !.version = 6, !.cskind = 2])
     /\ call.f.version \in 4..6)
    => (/\ result.err = "none"
        /\ (Val(result.spectrum).quality # <<>>) <=> (call.f.cskind >= 2)
        /\ result.pos - HeaderSizeOf(call.f)
              = call.f.nr * call.f.nd * 4
                   * (IF call.f.cskind >= 2 THEN 10 ELSE 9))

\* A well-formed stream of a version in 1..6.
WellFormedFile(f) ==
    /\ f.version \in 1..6
    /\ WellFormedV6([f EXCEPT !.version = 6])

\* C11: load of a file produced at version v takes header_size(v) + the
\* spectrum bytes from the stream, no byte less and no byte more.
C11_ExactConsumption ==
    (call.op = "loads" /\ WellFormedFile(call.f))
    => (/\ result.err = "none"
        /\ result.pos = HeaderSizeOf(call.f) + Len(SpectrumBytes(call.f)))

\* The channels of a spectrum in the order of the format, the bytes of
\* row k of range cell i of a spectrum, and where that row starts in a
\* stream of nd doppler cells with rows rows per cell (0-based offset from
\* the end of the header).
ChannelsOf(sp) ==
    <<sp.antenna1, sp.antenna2, sp.antenna3, sp.cross12, sp.cross13,
      sp.cross23, sp.quality>>
RowBytesOf(sp, i, k) ==
    IF k \in {4, 5, 6}
    THEN Concat([j \in 1..Len(ChannelsOf(sp)[k][i]) |->
                    ChannelsOf(sp)[k][i][j][1] \o ChannelsOf(sp)[k][i][j][2]])
    ELSE Concat(ChannelsOf(sp)[k][i])
RowLength(k, nd) == IF k \in {4, 5, 6} THEN 8 * nd ELSE 4 * nd
RowStart(i, k, nd, rows) ==
    (i - 1) * (IF rows = 7 THEN 40 * nd ELSE 36 * nd)
    + <<0, 4, 8, 12, 20, 28, 36>>[k] * nd

\* C12: load reads and dump writes, cell after cell, the rows antenna1,
\* antenna2, antenna3, cross12, cross13, cross23 and then quality iff
\* cskind >= 2: row k of cell i of the spectrum is the k-th row of the
\* i-th cell of the stream, on load and on dump.
C12_RowOrder ==
    /\ (call.op = "loads" /\ WellFormedFile(call.f) /\ call.f.version >= 4
        /\ call.p = "None")
       => (/\ result.err = "none"
           /\ \A i \in 1..call.f.nr, k \in 1..7 :
                 RowBytesOf(Val(result.spectrum), i, k)
                    = SubSeq(call.s,
                             HeaderSizeOf(call.f)
                                + RowStart(i, k, call.f.nd, 7) + 1,
                             HeaderSizeOf(call.f)
                                + RowStart(i, k, call.f.nd, 7)
                                + RowLength(k, call.f.nd)))
    /\ (call.op = "dumps" /\ call.f.version \in 4..6 /\ call.f.blocks = <<>>
        /\ call.f.site = RStripNul(call.f.site)
        /\ call.f.nr >= 1 /\ call.f.nd >= 1)
       => (/\ result.err = "none"
           /\ \A i \in 1..call.f.nr,
                 k \in 1..(IF HasQuality(call.f) THEN 7 ELSE 6) :
                 RowBytesOf(SpectrumOf(call.f), i, k)
                    = SubSeq(result.out,
                             HeaderSizeOf(call.f)
                                + RowStart(i, k, call.f.nd,
                                           IF HasQuality(call.f) THEN 7 ELSE 6)
                                + 1,
                             HeaderSizeOf(call.f)
                                + RowStart(i, k, call.f.nd,
                                           IF HasQuality(call.f) THEN 7 ELSE 6)
                                + RowLength(k, call.f.nd)))

\* The spectrum Spectrum.__init__ is to build from the raw channels of sp
\* with the one-argument processor p: p on each real channel, p on the real
\* and on the imaginary part of each complex channel.
Preprocessed(sp, p) ==
    [antenna1 |-> Process(p, sp.antenna1),
     antenna2 |-> Process(p, sp.antenna2),
     antenna3 |-> Process(p, sp.antenna3),
     cross12 |-> Recombine(Process(p, RealPart(sp.cross12)),
                           Process(p, ImagPart(sp.cross12))),
     cross13 |-> Recombine(Process(p, RealPart(sp.cross13)),
                           Process(p, ImagPart(sp.cross13))),
     cross23 |-> Recombine(Process(p, RealPart(sp.cross23)),
                           Process(p, ImagPart(sp.cross23))),
     quality |-> Process(p, sp.quality)]

\* C13: the Spectrum a load builds holds p(channel) for each real channel
\* and p(real) + 1j * p(imag) for each complex channel, p called with the
\* signal as its one argument; dump writes the values it is given.
C13_PreprocessHook ==
    /\ (call.op = "spectrum" /\ call.f.version \in 4..6 /\ call.f.nr >= 1
        /\ call.f.nd >= 1 /\ HasQuality(call.f))
       => (/\ result.err = "none"
           /\ Val(result.spectrum) = Preprocessed(SpectrumOf(call.f), call.p))
    /\ (call.op = "loads" /\ WellFormedFile(call.f) /\ call.f.version >= 4
        /\ call.p = "Abs")
       => (/\ result.err = "none"
           /\ Val(result.spectrum) = Preprocessed(SpectrumOf(call.f), "Abs"))
    /\ (call.op = "dumps" /\ WellFormedFile(call.f) /\ call.f.version >= 4
        /\ DistinctTags(call.f))
       => (/\ result.err = "none"
           /\ SubSeq(result.out, HeaderSizeOf(call.f) + 1, Len(result.out))
                 = SpectrumBytes(call.f))

\* C14: a load without a preprocessor returns, in every channel and at
\* every (range, doppler) position, the float32 value stored in the file:
\* the default Identity() changes no element.
C14_IdentityLoad ==
    (call.op = "loads" /\ call.p = "None" /\ WellFormedFile(call.f)
     /\ call.f.version >= 4)
    => (/\ result.err = "none"
        /\ result.spectrum # None
        /\ Val(result.spectrum) = SpectrumOf(call.f))

\* The plain processors of a pipeline, nested or not, from left to right.
RECURSIVE LeavesOf(_)
LeavesOf(proc) ==
    IF proc.cls = "CompositeProcessor"
    THEN Concat([i \in 1..Len(proc.processors) |-> LeavesOf(proc.processors[i])])
    ELSE <<proc.cls>>

\* classes[i], ..., classes[Len(classes)] applied one after the other.
RECURSIVE ApplyInOrder(_, _, _)
ApplyInOrder(classes, i, signal) ==
    IF i > Len(classes) THEN signal
    ELSE ApplyInOrder(classes, i + 1, ProcessOf(classes[i], signal))

IsPair(proc) == proc.cls = "CompositeProcessor" /\ Len(proc.processors) = 2

\* C15: CompositeProcessor(p1, ..., pN)(signal) is pN(...p2(p1(signal))),
\* whatever the nesting: the output is that of the plain processors applied
\* from left to right, and CompositeProcessor(CompositeProcessor(a, b), c)
\* gives the output of CompositeProcessor(a, CompositeProcessor(b, c)).
C15_CompositeOrder ==
    call.op = "process"
    => (/\ result.err = "none"
        /\ result.val = ApplyInOrder(LeavesOf(call.arg[1]), 1, call.arg[2])
        /\ (IsPair(call.arg[1]) /\ IsPair(call.arg[1].processors[1]))
           => result.val
                = SignalProcessorCall(
                      CompositeProcessor(
                          <<call.arg[1].processors[1].processors[1],
                            CompositeProcessor(
                                <<call.arg[1].processors[1].processors[2],
                                  call.arg[1].processors[2]>>)>>),
                      call.arg[2]))

\* C15: Rectifier after Abs inside a nested pipeline has turned -2.0 into
\* 2.0; in the other order the output is 0.0.
C15_Witness ==
    /\ call.op = "process"
    /\ call.arg[1] = CompositeProcessor(
                         <<CompositeProcessor(<<Processor("Abs"),
                                                Processor("Rectifier")>>),
                           Processor("Identity")>>)
    /\ call.arg[2] = <<<<<<192, 0, 0, 0>>>>>>
    /\ result.val = <<<<<<64, 0, 0, 0>>>>>>

\* C16: the timestamp read from stored seconds n is 1904-01-01T00:00:00
\* plus n seconds (n \div 86400 days and n % 86400 seconds after the epoch),
\* and the seconds written for that timestamp are n.
C16_TimestampIdentity ==
    call.op = "timestamp"
    => (/\ result.val[1].secs \in 0..86399
        /\ result.val[1].days * 86400 + result.val[1].secs = call.arg[1]
        /\ result.val[2] = call.arg[1])

\* C16: the stored seconds 172805 were read as two days and five seconds
\* after the epoch and written back as 172805.
C16_Witness ==
    /\ call.op = "timestamp"
    /\ call.arg = <<172805>>
    /\ result.val = <<[days |-> 2, secs |-> 5], 172805>>

\* C17: load of a file of version 1, 2 or 3 (a header without
\* num_range_cells and num_doppler_cells, no spectrum bytes) succeeds with
\* header.version the stored version, header.timestamp the epoch plus the
\* stored seconds, and a spectrum of zero rows.
C17_LoadOldVersions ==
    (call.op = "loads" /\ call.f.version \in 1..3)
    => (/\ result.err = "none"
        /\ result.header # None
        /\ Val(result.header).version = Some(call.f.version)
        /\ Val(result.header).timestamp = Some(ParseTimestamp(call.f.ts))
        /\ result.spectrum # None
        /\ Val(result.spectrum).antenna1 = <<>>)

\* C18: after load of a v6 file whose block section holds n blocks,
\* header.blocks holds n entries, the i-th under the tag of the i-th block
\* of the file, also when two blocks of the file carry the same tag.
C18_BlocksAppended ==
    (call.op = "loads" /\ WellFormedV6(call.f))
    => (/\ result.err = "none"
        /\ result.header # None
        /\ Len(Val(result.header).blocks) = Len(call.f.blocks)
        /\ \A i \in 1..Len(call.f.blocks) :
              Val(result.header).blocks[i][1] = RStripNul(call.f.blocks[i][1]))

\* The header attributes the layers 1..v introduce.
FieldsThrough(v) ==
    {"version", "timestamp"}
    \cup (IF v >= 2 THEN {"cskind"} ELSE {})
    \cup (IF v >= 3 THEN {"site_code"} ELSE {})
    \cup (IF v >= 4
          THEN {"cover_minutes", "deleted_source", "override_source",
                "start_freq_mhz", "rep_freq_mhz", "bandwidth_khz", "sweep_up",
                "num_doppler_cells", "num_range_cells", "first_range_cell",
                "range_cell_dist_km"}
          ELSE {})
    \cup (IF v >= 5
          THEN {"output_interval", "create_type_code", "creator_version",
                "num_active_channels", "num_spectra_channels",
                "active_channels"}
          ELSE {})

\* C19: load of a well-formed file of version V returns a header whose
\* version is V and in which every attribute of the layers 1..V is set.
C19_LayerFieldsSet ==
    (call.op = "loads" /\ WellFormedFile(call.f))
    => (/\ result.err = "none"
        /\ result.header # None
        /\ Val(result.header).version = Some(call.f.version)
        /\ \A a \in FieldsThrough(call.f.version) :
              Val(result.header)[a] # None)

\* C20: load of a file whose header carries num_doppler_cells <= 0 or
\* num_range_cells <= 0 fails when the spectrum is read, with the error of
\* an invalid value (ValueError), and returns no header and no spectrum.
C20_InvalidDimensions ==
    (call.op = "loads" /\ call.f.version \in 4..6 /\ call.f.blocks = <<>>
     /\ call.f.section_delta = 0
     /\ (call.f.nd <= 0 \/ call.f.nr <= 0))
    => (/\ result.err = "ValueError"
        /\ result.header = None
        /\ result.spectrum = None)

\* The client waits for the acknowledgement and the server, in load, for
\* bytes of the file: neither has a step to take.
ExchangeStuck ==
    /\ exchange.client = "read"
    /\ exchange.server = "load"
    /\ exchange.ack = <<>>
    /\ ~exchange.closed
    /\ ServerLoad(exchange).err = "Truncated"

\* C21: in the exchange of the example client and server on a well-formed
\* file there is no state where the client and the server wait on each
\* other, the server's load returns without an exception, and the client's
\* read of the acknowledgement does not end without the byte.
C21_ExchangeCompletes ==
    WellFormedFile(exchange.f)
    => (/\ ~ExchangeStuck
        /\ exchange.server # "ended"
        /\ exchange.client # "failed")

\* C22: the block-section loop of _read_header_bytes_v6 ends, for every
\* declared section size and every stream, when the section size is used
\* up or when a read runs past the end of the stream, and each pass it
\* made took at least the 8 bytes of a tag and a block size.
C22_SectionLoopEnds ==
    call.op = "section"
    => (/\ result.err \in {"none", "Truncated"}
        /\ result.pos <= Len(call.s)
        /\ 8 * Len(Val(result.header).blocks)
              <= result.pos - (V5_HEADER_SIZE + 4))

\* C23: a dump of a header whose version is outside 1..6, or one of whose
\* blocks cannot be serialized, raises and leaves the stream as it was:
\* zero bytes are written.
C23_NothingWrittenOnError ==
    (/\ call.op = "dumps"
     /\ \/ call.f.version \notin 1..6
        \/ SerializeBlocks(HeaderOf(call.f), writers).err # "none")
    => (/\ result.err # "none"
        /\ result.out = <<>>)

\* C23: the dump of a header of version 7 raised and wrote nothing.
C23_Witness ==
    /\ call.op = "dumps"
    /\ call.f.version = 7
    /\ result.err # "none"
    /\ result.out = <<>>

\* A stream load is to accept: well formed but for stored values that are
\* not in normal form (a flag other than 0 and 1, a string that ends in
\* NUL bytes).
Loadable(f) ==
    /\ f.version \in 4..6
    /\ WellFormedV6([f EXCEPT !.version = 6, !.flag = 1,
                              !.site = RStripNul(f.site)])

\* C24: for a stream s that load accepts, t = dumps(loads(s)) is accepted
\* by load and dumps(loads(t)) = t, also where the first pass normalises
\* flags and strips the NUL bytes that end a string.
C24_DumpLoadIdempotent ==
    (call.op = "roundtrip" /\ Loadable(call.f))
    => (/\ result.err = "none"
        /\ DumpLoaded(Loads(result.out, "None", readers), writers).err = "none"
        /\ DumpLoaded(Loads(result.out, "None", readers), writers).out
              = result.out)

=============================================================================
